---- MODULE Spec2Model ----
(***************************************************************************)
(* BLE IMU orientation streaming (Arduino UNO R4 + LSM6DSO32).             *)
(*                                                                         *)
(* The repository holds two sketches.  The "fused" sketch                  *)
(* (src/unnamed/part_000) reads the IMU, runs the Madgwick filter and      *)
(* notifies {"roll":R,"pitch":P,"yaw":Y} over the Nordic UART TX           *)
(* characteristic.  The "raw" sketch (src/adafruit_lsm6dso32.ino) notifies *)
(* the raw accelerometer / gyroscope reading and a timestamp.              *)
(*                                                                         *)
(* Numbers: every float is modelled as an integer count of thousandths     *)
(* (milli-degrees, milli-rad/s, milli-m/s^2).  Time is in milliseconds.    *)
(* The sensor driver, the Madgwick library and the BLE stack are libraries *)
(* outside the repository: their results are nondeterministic choices      *)
(* over the values their interfaces allow.                                 *)
(***************************************************************************)
EXTENDS Integers, Sequences, FiniteSets, TLC

VARIABLES
    variant,        \* which sketch runs: "fused" or "raw"
    pc,             \* position of the single Arduino task
    initLog,        \* initialization steps completed so far, in order
    advertising,    \* BLE.advertise() has been called
    advOn,          \* the controller is advertising right now
    attPeer,        \* the central the BLE stack has on record
    sampleFreq,     \* Madgwick: rate given to begin() (0 before begin)
    filterBegins,   \* Madgwick: number of begin() calls
    q,              \* Madgwick: orientation state, as <<roll, pitch, yaw>>
    filterArgs,     \* arguments of the last updateIMU call (<<>> if none)
    peer,           \* the central whose radio link is up, or NoPeer
    central,        \* loop(): the BLEDevice returned by BLE.central()
    tickConnected,  \* loop(): result of the last central.connected() call
    readOk,         \* result of the last imu.getEvent call
    accel,          \* loop(): sensors_event_t accel, <<x, y, z>>
    gyro,           \* loop(): sensors_event_t gyro,  <<x, y, z>>
    currentTime,    \* raw sketch: unsigned long currentTime
    est,            \* loop(): float roll, pitch, yaw
    txValue,        \* value held by txChar (sequence of characters)
    txFull,         \* the text the last frame would have had unbounded
    txTo,           \* central the last notification was delivered to
    lastSendOk,     \* result of the last txChar.writeValue call
    rxValue,        \* value held by rxChar
    ticks,          \* ticks started in the current session (saturating)
    frames,         \* writeValue calls in the current session (saturating)
    updates,        \* updateIMU calls in the current session (saturating)
    sendsThisTick,  \* writeValue calls since the current tick started
    updatesThisTick,\* updateIMU calls since the current tick started
    sendsWhileGone, \* writeValue calls made since the session's peer left
    elapsed,        \* time since the current tick started
    sinceSend,      \* time since the last writeValue of the session, or NoGap
    tickGap,        \* time between the last two tick starts of the session
    sendGap         \* time between the last two writeValue calls of the session

vars == <<variant, pc, initLog, advertising, advOn, attPeer, sampleFreq,
          filterBegins, q,
          filterArgs, peer, central, tickConnected, readOk, accel, gyro,
          currentTime, est, txValue, txFull, txTo, lastSendOk, rxValue,
          ticks, frames, updates, sendsThisTick, updatesThisTick,
          sendsWhileGone, elapsed, sinceSend, tickGap, sendGap>>

(***************************************************************************)
(* Program constants                                                       *)
(***************************************************************************)
SAMPLE_RATE_HZ == 100
LOOP_DELAY_MS == 100
SmallBuffer == 8 * 4    \* mutant: char buffer[32]
BUFFER_SIZE == 128
TX_CHAR_SIZE == 512

(***************************************************************************)
(* Bounds of the model                                                     *)
(***************************************************************************)
MaxTicks == 2       \* session counters saturate here
MaxProc == 1        \* a sensor read or a write takes 0 or MaxProc milliseconds

NoPeer == "none"
NoGap == 0 - 1
Peers == {"A", "B"}
Variants == {"fused", "raw"}
ProcTimes == {0, MaxProc}

\* Readings the sensor can deliver, <<accel, gyro>> in thousandths.
Samples ==
    { << <<0, 0, 9807>>, <<0, 0, 0>> >>,
      << <<-313813, 1234, 0>>, <<1000, -34907, 2>> >> }

\* Orientations the filter can report, <<roll, pitch, yaw>> in thousandths of
\* a degree: roll in [-180, 180], pitch in [-90, 90], yaw in [0, 360].
Orientations ==
    { <<-180000, -90000, 360000>>,
      <<-4, 1234, 0>>,
      <<179996, 90000, 179994>> }
Identity == <<0, 0, 180000>>

\* Readings of millis() and values a central can write to rxChar.
MillisVals == {0, 2147483647}
RxVals == {<<>>, <<"x">>}

Min(a, b) == IF a < b THEN a ELSE b
Abs(x) == IF x < 0 THEN -x ELSE x
Bump(n) == Min(n + 1, MaxTicks)
After(t, d) == IF t = NoGap THEN NoGap ELSE t + d

(***************************************************************************)
(* Text formatting.  A text is a sequence of one-character strings.        *)
(***************************************************************************)
Digit(n) == <<"0", "1", "2", "3", "4", "5", "6", "7", "8", "9">>[n + 1]

RECURSIVE NatText(_)
NatText(n) == IF n < 10 THEN <<Digit(n)>>
              ELSE NatText(n \div 10) \o <<Digit(n % 10)>>

RECURSIVE Pow10(_)
Pow10(k) == IF k = 0 THEN 1 ELSE 10 * Pow10(k - 1)

\* k digits of n, zero padded on the left.
RECURSIVE Padded(_, _)
Padded(n, k) == IF k = 0 THEN <<>>
                ELSE Padded(n \div 10, k - 1) \o <<Digit(n % 10)>>

\* |v| thousandths rounded to `decimals` decimal places (decimals <= 3 rounds
\* to nearest, ties away from zero; decimals > 3 appends zeros).
Scaled(v, decimals) ==
    IF decimals >= 3 THEN Abs(v) * Pow10(decimals - 3)
    ELSE (Abs(v) + (Pow10(3 - decimals) \div 2)) \div Pow10(3 - decimals)

\* printf("%.<decimals>f", v) and String(v, decimals): sign, integer part,
\* point, exactly `decimals` digits.  A negative value keeps its sign even
\* when it rounds to zero.
FormatFixed(v, decimals) ==
    LET s == Scaled(v, decimals)
        unit == Pow10(decimals)
    IN  (IF v < 0 THEN <<"-">> ELSE <<>>)
        \o NatText(s \div unit) \o <<".">> \o Padded(s % unit, decimals)

\* Mutant: the angles are printed with one decimal place.
OrientationTextOneDecimal(roll, pitch, yaw) ==
    <<"{", "\"", "r", "o", "l", "l", "\"", ":">> \o FormatFixed(roll, 1)
    \o <<",", "\"", "p", "i", "t", "c", "h", "\"", ":">> \o FormatFixed(pitch, 1)
    \o <<",", "\"", "y", "a", "w", "\"", ":">> \o FormatFixed(yaw, 1)
    \o <<"}">>

\* "{\"roll\":%.2f,\"pitch\":%.2f,\"yaw\":%.2f}"
OrientationText(roll, pitch, yaw) ==
    <<"{", "\"", "r", "o", "l", "l", "\"", ":">> \o FormatFixed(roll, 2)
    \o <<",", "\"", "p", "i", "t", "c", "h", "\"", ":">> \o FormatFixed(pitch, 2)
    \o <<",", "\"", "y", "a", "w", "\"", ":">> \o FormatFixed(yaw, 2)
    \o <<"}">>

\* snprintf(buffer, size, ...): at most size - 1 characters are stored.
Snprintf(size, text) == SubSeq(text, 1, Min(Len(text), size - 1))

\* BLECharacteristic::writeValue keeps at most the characteristic's size.
CharValue(size, text) == SubSeq(text, 1, Min(Len(text), size))

\* "x": <ax>, "y": <ay>, "z": <az>  with 4 decimal places
XyzText(v) ==
    <<"{", "\"", "x", "\"", ":", " ">> \o FormatFixed(v[1], 4)
    \o <<",", " ", "\"", "y", "\"", ":", " ">> \o FormatFixed(v[2], 4)
    \o <<",", " ", "\"", "z", "\"", ":", " ">> \o FormatFixed(v[3], 4)
    \o <<"}">>

\* The raw sketch's String json.
RawText(a, g, t) ==
    <<"{">>
    \o <<"\"", "a", "c", "c", "e", "l", "\"", ":", " ">> \o XyzText(a)
    \o <<",", " ">>
    \o <<"\"", "g", "y", "r", "o", "\"", ":", " ">> \o XyzText(g)
    \o <<",", " ">>
    \o <<"\"", "t", "i", "m", "e", "\"", ":", " ">> \o NatText(t)
    \o <<"}">>

\* gyro.gyro.x * 180.0f / PI on thousandths: 180 / PI = 57.29578, the result
\* truncated toward zero.
RadToDeg(v) ==
    LET m == Abs(v) * 57 + (Abs(v) * 29578) \div 100000
    IN  IF v < 0 THEN -m ELSE m

(***************************************************************************)
(* Initial state: the globals as constructed, before setup() runs.         *)
(***************************************************************************)
Init ==
    /\ variant \in Variants
    /\ pc = IF variant = "fused" THEN "imu_begin" ELSE "start"
    /\ initLog = <<>>
    /\ advertising = FALSE
    /\ advOn = FALSE
    /\ attPeer = NoPeer
    /\ sampleFreq = 0
    /\ filterBegins = 0
    /\ q = Identity
    /\ filterArgs = <<>>
    /\ peer = NoPeer
    /\ central = NoPeer
    /\ tickConnected = FALSE
    /\ readOk = FALSE
    /\ accel = <<0, 0, 0>>
    /\ gyro = <<0, 0, 0>>
    /\ currentTime = 0
    /\ est = <<0, 0, 0>>
    /\ txValue = <<>>
    /\ txFull = <<>>
    /\ txTo = NoPeer
    /\ lastSendOk = FALSE
    /\ rxValue = <<>>
    /\ ticks = 0
    /\ frames = 0
    /\ updates = 0
    /\ sendsThisTick = 0
    /\ updatesThisTick = 0
    /\ sendsWhileGone = 0
    /\ elapsed = 0
    /\ sinceSend = NoGap
    /\ tickGap = NoGap
    /\ sendGap = NoGap

filterVars == <<sampleFreq, filterBegins, q, filterArgs>>
sensorVars == <<readOk, accel, gyro>>
txVars == <<txValue, txFull, txTo, lastSendOk>>
countVars == <<ticks, frames, updates, sendsThisTick, updatesThisTick,
               sendsWhileGone>>
timeVars == <<elapsed, sinceSend, tickGap, sendGap>>
loopVars == <<central, tickConnected, est, currentTime>>
envVars == <<peer, rxValue>>
stackVars == <<advertising, advOn, attPeer>>

(***************************************************************************)
(* setup()                                                                 *)
(***************************************************************************)
\* Raw sketch: currentTime = millis().
RawStart ==
    /\ pc = "start"
    /\ currentTime' \in MillisVals
    /\ pc' = "serial_wait"
    /\ UNCHANGED <<variant, initLog, stackVars, filterVars, sensorVars,
                   txVars, countVars, timeVars, central, tickConnected, est,
                   envVars>>

\* Raw sketch: while (!Serial) delay(10).
SerialWait ==
    /\ pc = "serial_wait"
    /\ \E ready \in BOOLEAN : pc' = IF ready THEN "imu_begin" ELSE "serial_wait"
    /\ UNCHANGED <<variant, initLog, stackVars, filterVars, sensorVars,
                   txVars, countVars, timeVars, loopVars, envVars>>

\* Mutant: the call filter.begin(SAMPLE_RATE_HZ) is missing from setup().
ImuBeginThenBle ==
    /\ pc = "imu_begin"
    /\ \E ok \in BOOLEAN :
         IF ok
         THEN /\ pc' = "ble_begin"
              /\ initLog' = Append(initLog, "imu")
         ELSE /\ pc' = "halt_imu"
              /\ initLog' = Append(initLog, "imu_failed")
    /\ UNCHANGED <<variant, stackVars, filterVars, sensorVars, txVars,
                   countVars, timeVars, loopVars, envVars>>

\* begin_I2C: on failure the sketch halts in while (true) delay(10).
ImuBegin ==
    /\ pc = "imu_begin"
    /\ \E ok \in BOOLEAN :
         IF ok
         THEN /\ pc' = IF variant = "fused" THEN "filter_begin" ELSE "ble_begin"
              /\ initLog' = Append(initLog, "imu")
         ELSE /\ pc' = "halt_imu"
              /\ initLog' = Append(initLog, "imu_failed")
    /\ UNCHANGED <<variant, stackVars, filterVars, sensorVars, txVars,
                   countVars, timeVars, loopVars, envVars>>

\* filter.begin(SAMPLE_RATE_HZ) sets the rate; the orientation is untouched.
FilterBegin ==
    /\ pc = "filter_begin"
    /\ sampleFreq' = SAMPLE_RATE_HZ
    /\ filterBegins' = filterBegins + 1
    /\ initLog' = Append(initLog, "filter")
    /\ pc' = "ble_begin"
    /\ UNCHANGED <<variant, stackVars, q, filterArgs, sensorVars, txVars,
                   countVars, timeVars, loopVars, envVars>>

\* BLE.begin(): on failure the sketch halts in while (true).
BleBegin ==
    /\ pc = "ble_begin"
    /\ \E ok \in BOOLEAN :
         IF ok
         THEN /\ pc' = "ble_config"
              /\ initLog' = Append(initLog, "ble")
         ELSE /\ pc' = "halt_ble"
              /\ initLog' = Append(initLog, "ble_failed")
    /\ UNCHANGED <<variant, stackVars, filterVars, sensorVars, txVars,
                   countVars, timeVars, loopVars, envVars>>

\* Names, advertised service, addCharacteristic(txChar), (rxChar), addService.
BleConfig ==
    /\ pc = "ble_config"
    /\ initLog' = initLog \o <<"txChar", "rxChar", "service">>
    /\ pc' = "advertise"
    /\ UNCHANGED <<variant, stackVars, filterVars, sensorVars, txVars,
                   countVars, timeVars, loopVars, envVars>>

\* BLE.advertise(): from here on a central can connect.
Advertise ==
    /\ pc = "advertise"
    /\ advertising' = TRUE
    /\ advOn' = TRUE
    /\ initLog' = Append(initLog, "advertise")
    /\ pc' = IF variant = "fused" THEN "loop" ELSE "imu_config"
    /\ UNCHANGED <<variant, attPeer, filterVars, sensorVars, txVars, countVars,
                   timeVars, loopVars, envVars>>

\* Raw sketch: setAccelRange and the range / rate printouts.
ImuConfig ==
    /\ pc = "imu_config"
    /\ initLog' = Append(initLog, "imu_config")
    /\ pc' = "loop"
    /\ UNCHANGED <<variant, stackVars, filterVars, sensorVars, txVars,
                   countVars, timeVars, loopVars, envVars>>

Halted == pc \in {"halt_imu", "halt_ble"}

\* Mutant: the halt loop is missing and setup() carries on.
HaltFallsThrough ==
    /\ Halted
    /\ pc' = IF pc = "halt_ble" THEN "ble_config"
             ELSE IF variant = "fused" THEN "filter_begin" ELSE "ble_begin"
    /\ UNCHANGED <<variant, initLog, stackVars, filterVars, sensorVars,
                   txVars, countVars, timeVars, loopVars, envVars>>

\* The halt loops never leave.
Halt ==
    /\ Halted
    /\ UNCHANGED vars

(***************************************************************************)
(* The transport as the sketch sees it                                     *)
(***************************************************************************)
\* HCI.poll(), run by BLE.central() and by BLEDevice::connected(): the stack
\* takes in the connection events that arrived since the last poll, and after
\* a disconnection it switches advertising back on.
Poll ==
    /\ attPeer' = peer
    /\ advOn' = (advertising /\ peer = NoPeer)

\* Mutant: BLE.connected(), any central counts, not the recorded one.
ConnectedAnyPeer(dev) == dev # NoPeer /\ peer # NoPeer

\* Mutant: while (central), the handle is tested and not the connection.
ConnectedHandleOnly(dev) == dev # NoPeer

\* BLEDevice::connected(), after its poll: the device is a real one and is
\* the central the stack is connected to.
Connected(dev) == dev # NoPeer /\ peer = dev

\* Results txChar.writeValue can report: the stack notifies the central it
\* has on record, and may fail even then.
SendResults == IF attPeer = NoPeer THEN {FALSE} ELSE BOOLEAN

\* Who receives a notification the stack sent: the central on record, if its
\* link is still up.
Receiver(ok) == IF ok /\ peer = attPeer THEN peer ELSE NoPeer

\* Sending a notification may poll (HCI sendAclPkt polls while the controller
\* has no room for the packet); nothing is sent without a central on record.
PollsInWrite == IF attPeer = NoPeer THEN {FALSE} ELSE BOOLEAN

\* Mutant: a failed write is retried at once.
AfterSendRetry(ok) == IF ok THEN "delay" ELSE "send"

\* The return value of writeValue is dropped: the delay comes next.
AfterSend(ok) == "delay"

\* Where loop() goes when the while condition is false.
ExitPc == IF variant = "fused" THEN "loop" ELSE "disconnected"

\* Mutant: do { body } while (...), the body runs whatever the condition.
AfterCheckDoWhile(c) == "read"

\* while (central.connected()) { body }: the body runs only when the
\* condition evaluated true.
AfterCheck(c) == IF c THEN "read" ELSE ExitPc

Streaming == pc \in {"while", "read", "compute", "send", "delay"}
InTick == pc \in {"read", "compute", "send", "delay"}

(***************************************************************************)
(* loop()                                                                  *)
(***************************************************************************)
\* Mutant: the filter orientation is reset when a central is accepted.
LoopCentralReset ==
    /\ pc = "loop"
    /\ Poll
    /\ IF peer = NoPeer
       THEN UNCHANGED <<pc, central, countVars, timeVars, q>>
       ELSE /\ central' = peer
            /\ pc' = "while"
            /\ q' = Identity
            /\ ticks' = 0
            /\ frames' = 0
            /\ updates' = 0
            /\ sendsThisTick' = 0
            /\ updatesThisTick' = 0
            /\ sendsWhileGone' = 0
            /\ elapsed' = 0
            /\ sinceSend' = NoGap
            /\ tickGap' = NoGap
            /\ sendGap' = NoGap
    /\ UNCHANGED <<variant, initLog, advertising, sampleFreq, filterBegins,
                   filterArgs, sensorVars, txVars, tickConnected, est,
                   currentTime, envVars>>

\* Mutant: with no central the loop still runs the filter on a new reading.
LoopCentralKeepsFiltering ==
    /\ pc = "loop"
    /\ Poll
    /\ IF peer = NoPeer
       THEN /\ \E s \in Samples, o \in Orientations :
                 /\ accel' = s[1]
                 /\ gyro' = s[2]
                 /\ filterArgs' = <<s[2][1], s[2][2], s[2][3],
                                    s[1][1], s[1][2], s[1][3]>>
                 /\ q' = o
            /\ UNCHANGED <<pc, central, countVars, timeVars>>
       ELSE /\ central' = peer
            /\ pc' = "while"
            /\ ticks' = 0
            /\ frames' = 0
            /\ updates' = 0
            /\ sendsThisTick' = 0
            /\ updatesThisTick' = 0
            /\ sendsWhileGone' = 0
            /\ elapsed' = 0
            /\ sinceSend' = NoGap
            /\ tickGap' = NoGap
            /\ sendGap' = NoGap
            /\ UNCHANGED <<accel, gyro, filterArgs, q>>
    /\ UNCHANGED <<variant, initLog, advertising, sampleFreq, filterBegins,
                   readOk, txVars, tickConnected, est, currentTime, envVars>>

\* BLEDevice central = BLE.central(); if (!central) return;
LoopCentral ==
    /\ pc = "loop"
    /\ Poll
    /\ IF peer = NoPeer
       THEN UNCHANGED <<pc, central, countVars, timeVars>>
       ELSE /\ central' = peer
            /\ pc' = "while"
            /\ ticks' = 0
            /\ frames' = 0
            /\ updates' = 0
            /\ sendsThisTick' = 0
            /\ updatesThisTick' = 0
            /\ sendsWhileGone' = 0
            /\ elapsed' = 0
            /\ sinceSend' = NoGap
            /\ tickGap' = NoGap
            /\ sendGap' = NoGap
    /\ UNCHANGED <<variant, initLog, advertising, filterVars, sensorVars,
                   txVars, tickConnected, est, currentTime, envVars>>

\* Mutant: a value written to rxChar is taken as a command to stop.
WhileCheckObeysRx ==
    /\ pc = "while"
    /\ Poll
    /\ LET c == Connected(central) /\ rxValue = <<>> IN
         /\ tickConnected' = c
         /\ pc' = AfterCheck(c)
         /\ IF c
            THEN /\ ticks' = Bump(ticks)
                 /\ sendsThisTick' = 0
                 /\ updatesThisTick' = 0
                 /\ tickGap' = IF ticks = 0 THEN NoGap ELSE elapsed
                 /\ elapsed' = 0
                 /\ UNCHANGED <<central, frames, updates, sendsWhileGone,
                                sinceSend, sendGap>>
            ELSE /\ central' = NoPeer
                 /\ elapsed' = 0
                 /\ sinceSend' = NoGap
                 /\ tickGap' = NoGap
                 /\ sendGap' = NoGap
                 /\ UNCHANGED countVars
    /\ UNCHANGED <<variant, initLog, advertising, filterVars, sensorVars,
                   txVars, est, currentTime, envVars>>

\* while (central.connected()): the start-of-tick connection check.
WhileCheck ==
    /\ pc = "while"
    /\ Poll
    /\ LET c == Connected(central) IN
         /\ tickConnected' = c
         /\ pc' = AfterCheck(c)
         /\ IF c
            THEN /\ ticks' = Bump(ticks)
                 /\ sendsThisTick' = 0
                 /\ updatesThisTick' = 0
                 /\ tickGap' = IF ticks = 0 THEN NoGap ELSE elapsed
                 /\ elapsed' = 0
                 /\ UNCHANGED <<central, frames, updates, sendsWhileGone,
                                sinceSend, sendGap>>
            ELSE /\ central' = NoPeer
                 /\ elapsed' = 0
                 /\ sinceSend' = NoGap
                 /\ tickGap' = NoGap
                 /\ sendGap' = NoGap
                 /\ UNCHANGED countVars
    /\ UNCHANGED <<variant, initLog, advertising, filterVars, sensorVars,
                   txVars, est, currentTime, envVars>>

\* Fused sketch: ReadSensorData(accel, gyro).  The result of getEvent is
\* dropped; after a failed read the structs hold whatever the driver left.
ReadSensorData ==
    /\ pc = "read"
    /\ variant = "fused"
    /\ \E d \in ProcTimes, ok \in BOOLEAN, s \in Samples :
         /\ readOk' = ok
         /\ accel' = s[1]
         /\ gyro' = s[2]
         /\ elapsed' = elapsed + d
         /\ sinceSend' = After(sinceSend, d)
    /\ pc' = "compute"
    /\ UNCHANGED <<variant, initLog, stackVars, filterVars, txVars,
                   countVars, tickGap, sendGap, loopVars, envVars>>

\* Raw sketch: currentTime = millis(); dso32.getEvent(&accel, &gyro, &temp).
RawGetEvent ==
    /\ pc = "read"
    /\ variant = "raw"
    /\ \E d \in ProcTimes, ok \in BOOLEAN, s \in Samples, t \in MillisVals :
         /\ currentTime' = t
         /\ readOk' = ok
         /\ accel' = s[1]
         /\ gyro' = s[2]
         /\ elapsed' = elapsed + d
         /\ sinceSend' = After(sinceSend, d)
    /\ pc' = "send"
    /\ UNCHANGED <<variant, initLog, stackVars, filterVars, txVars,
                   countVars, tickGap, sendGap, central, tickConnected, est,
                   envVars>>

\* Mutant: the gyro reading is handed to the filter as read, in rad/s.
UpdateArgsUnconverted(a, g) == <<g[1], g[2], g[3], a[1], a[2], a[3]>>

\* The six arguments of filter.updateIMU: gyro in deg/s, accel as read.
UpdateArgs(a, g) ==
    <<RadToDeg(g[1]), RadToDeg(g[2]), RadToDeg(g[3]), a[1], a[2], a[3]>>

\* Mutant: the frame is written only when the pitch is not negative.
ComputeThenMaybeSend ==
    /\ pc = "compute"
    /\ \E o \in Orientations :
         /\ filterArgs' = UpdateArgs(accel, gyro)
         /\ q' = o
         /\ est' = o
         /\ pc' = IF o[2] < 0 THEN "delay" ELSE "send"
    /\ updates' = Bump(updates)
    /\ updatesThisTick' = Min(updatesThisTick + 1, 2)
    /\ UNCHANGED <<variant, initLog, stackVars, sampleFreq, filterBegins,
                   sensorVars, txVars, ticks, frames, sendsThisTick,
                   sendsWhileGone, timeVars, central, tickConnected,
                   currentTime, envVars>>

\* Mutant: the angles are read from the filter before it is updated.
ComputeAfterReadingAngles ==
    /\ pc = "compute"
    /\ \E o \in Orientations :
         /\ filterArgs' = UpdateArgs(accel, gyro)
         /\ q' = o
         /\ est' = q
    /\ updates' = Bump(updates)
    /\ updatesThisTick' = Min(updatesThisTick + 1, 2)
    /\ pc' = "send"
    /\ UNCHANGED <<variant, initLog, stackVars, sampleFreq, filterBegins,
                   sensorVars, txVars, ticks, frames, sendsThisTick,
                   sendsWhileGone, timeVars, central, tickConnected,
                   currentTime, envVars>>

\* ComputeOrientation: updateIMU, then getRoll / getPitch / getYaw of the
\* updated filter.
ComputeOrientation ==
    /\ pc = "compute"
    /\ \E o \in Orientations :
         /\ filterArgs' = UpdateArgs(accel, gyro)
         /\ q' = o
         /\ est' = o
    /\ updates' = Bump(updates)
    /\ updatesThisTick' = Min(updatesThisTick + 1, 2)
    /\ pc' = "send"
    /\ UNCHANGED <<variant, initLog, stackVars, sampleFreq, filterBegins,
                   sensorVars, txVars, ticks, frames, sendsThisTick,
                   sendsWhileGone, timeVars, central, tickConnected,
                   currentTime, envVars>>

\* One txChar.writeValue(text) call: the value is stored, the central on
\* record is notified, and the stack may take in pending events.  The time
\* the calls of a tick take is counted once, in the sensor read.
WriteValue(text, ok) ==
    /\ \E polled \in PollsInWrite :
         IF polled THEN Poll ELSE UNCHANGED <<attPeer, advOn>>
    /\ txValue' = CharValue(TX_CHAR_SIZE, text)
    /\ lastSendOk' = ok
    /\ txTo' = Receiver(ok)
    /\ frames' = Bump(frames)
    /\ sendsThisTick' = Min(sendsThisTick + 1, 2)
    /\ sendsWhileGone' = IF Connected(central) THEN sendsWhileGone
                         ELSE Min(sendsWhileGone + 1, 2)
    /\ sendGap' = sinceSend
    /\ sinceSend' = 0
    /\ UNCHANGED elapsed

\* SendOrientation: snprintf into char buffer[128], then writeValue(buffer).
SendOrientation ==
    /\ pc = "send"
    /\ variant = "fused"
    /\ \E ok \in SendResults :
         /\ txFull' = OrientationText(est[1], est[2], est[3])
         /\ WriteValue(Snprintf(BUFFER_SIZE, txFull'), ok)
         /\ pc' = AfterSend(ok)
    /\ UNCHANGED <<variant, initLog, advertising, filterVars, sensorVars,
                   ticks, updates, updatesThisTick, tickGap, loopVars,
                   envVars>>

\* Raw sketch: build String json, txChar.writeValue(json.c_str()); the while
\* body ends here, without a wait.
RawSend ==
    /\ pc = "send"
    /\ variant = "raw"
    /\ \E ok \in SendResults :
         /\ txFull' = RawText(accel, gyro, currentTime)
         /\ WriteValue(txFull', ok)
    /\ pc' = "while"
    /\ UNCHANGED <<variant, initLog, advertising, filterVars, sensorVars,
                   ticks, updates, updatesThisTick, tickGap, loopVars,
                   envVars>>

\* Mutant: the wait does not end until the last write was reported sent.
DelayUntilSent ==
    /\ pc = "delay"
    /\ lastSendOk
    /\ elapsed' = elapsed + LOOP_DELAY_MS
    /\ sinceSend' = After(sinceSend, LOOP_DELAY_MS)
    /\ pc' = "while"
    /\ UNCHANGED <<variant, initLog, stackVars, filterVars, sensorVars,
                   txVars, countVars, tickGap, sendGap, loopVars, envVars>>

\* delay(LOOP_DELAY_MS) returns LOOP_DELAY_MS later.
Delay ==
    /\ pc = "delay"
    /\ elapsed' = elapsed + LOOP_DELAY_MS
    /\ sinceSend' = After(sinceSend, LOOP_DELAY_MS)
    /\ pc' = "while"
    /\ UNCHANGED <<variant, initLog, stackVars, filterVars, sensorVars,
                   txVars, countVars, tickGap, sendGap, loopVars, envVars>>

\* Raw sketch: "Central disconnected", delay(100), and loop() returns.
RawDisconnected ==
    /\ pc = "disconnected"
    /\ pc' = "loop"
    /\ UNCHANGED <<variant, initLog, stackVars, filterVars, sensorVars,
                   txVars, countVars, timeVars, loopVars, envVars>>

(***************************************************************************)
(* The centrals                                                            *)
(***************************************************************************)
\* A central connects: only while the controller advertises, which the
\* connection ends.
PeerConnect(p) ==
    /\ advOn
    /\ peer = NoPeer
    /\ peer' = p
    /\ advOn' = FALSE
    /\ sendsWhileGone' = IF p = central THEN 0 ELSE sendsWhileGone
    /\ UNCHANGED <<variant, pc, initLog, advertising, attPeer, filterVars,
                   sensorVars, txVars, ticks, frames, updates, sendsThisTick,
                   updatesThisTick, timeVars, loopVars, rxValue>>

\* The connected central goes away.
PeerDisconnect ==
    /\ peer # NoPeer
    /\ peer' = NoPeer
    /\ UNCHANGED <<variant, pc, initLog, stackVars, filterVars, sensorVars,
                   txVars, countVars, timeVars, loopVars, rxValue>>

\* The connected central writes the RX characteristic.
PeerWriteRx ==
    /\ peer # NoPeer
    /\ \E v \in RxVals : v # rxValue /\ rxValue' = v
    /\ UNCHANGED <<variant, pc, initLog, stackVars, filterVars, sensorVars,
                   txVars, countVars, timeVars, loopVars, peer>>

Next ==
    \/ RawStart
    \/ SerialWait
    \/ ImuBegin
    \/ FilterBegin
    \/ BleBegin
    \/ BleConfig
    \/ Advertise
    \/ ImuConfig
    \/ Halt
    \/ LoopCentral
    \/ WhileCheck
    \/ ReadSensorData
    \/ RawGetEvent
    \/ ComputeOrientation
    \/ SendOrientation
    \/ RawSend
    \/ Delay
    \/ RawDisconnected
    \/ \E p \in Peers : PeerConnect(p)
    \/ PeerDisconnect
    \/ PeerWriteRx

Spec == Init /\ [][Next]_vars

\* The steps of the sketch itself: setup() and then loop() called for ever.
ProgStep ==
    \/ RawStart
    \/ SerialWait
    \/ ImuBegin
    \/ FilterBegin
    \/ BleBegin
    \/ BleConfig
    \/ Advertise
    \/ ImuConfig
    \/ LoopCentral
    \/ WhileCheck
    \/ ReadSensorData
    \/ RawGetEvent
    \/ ComputeOrientation
    \/ SendOrientation
    \/ RawSend
    \/ Delay
    \/ RawDisconnected

\* The sketch is the only task of the board and every library call returns:
\* it keeps taking steps.  Nothing is assumed of the centrals.
LiveSpec == Init /\ [][Next]_vars /\ WF_vars(ProgStep)

(***************************************************************************)
(* The encoder on its own: the fused sketch about to run SendOrientation   *)
(* in the first tick of a session, with any in-range estimate.             *)
(***************************************************************************)
EncRolls == {-180000, -179995, -100000, -99996, -10004, -9999, -1000, -4, 0,
             4, 1234, 9996, 99995, 179994, 180000}
EncPitches == {-90000, -9995, -4, 0, 5, 90000}
EncYaws == {0, 4, 9995, 99996, 180000, 359994, 359996, 360000}

EncInit ==
    /\ variant = "fused"
    /\ pc = "send"
    /\ initLog = <<"imu", "filter", "ble", "txChar", "rxChar", "service",
                   "advertise">>
    /\ advertising = TRUE
    /\ advOn = FALSE
    /\ attPeer = "A"
    /\ sampleFreq = SAMPLE_RATE_HZ
    /\ filterBegins = 1
    /\ est \in {<<r, p, y>> : r \in EncRolls, p \in EncPitches, y \in EncYaws}
    /\ q = est
    /\ peer \in {"A", NoPeer}
    /\ central = "A"
    /\ tickConnected = TRUE
    /\ readOk = TRUE
    /\ accel = <<0, 0, 9807>>
    /\ gyro = <<0, 0, 0>>
    /\ filterArgs = UpdateArgs(accel, gyro)
    /\ currentTime = 0
    /\ txValue = <<>>
    /\ txFull = <<>>
    /\ txTo = NoPeer
    /\ lastSendOk = FALSE
    /\ rxValue = <<>>
    /\ ticks = 1
    /\ frames = 0
    /\ updates = 1
    /\ sendsThisTick = 0
    /\ updatesThisTick = 1
    /\ sendsWhileGone = 0
    /\ elapsed = 0
    /\ sinceSend = NoGap
    /\ tickGap = NoGap
    /\ sendGap = NoGap

EncNext == SendOrientation \/ Delay

EncSpec == EncInit /\ [][EncNext]_vars

(***************************************************************************)
(* Properties                                                              *)
(***************************************************************************)
Idle == pc \in {"loop", "disconnected"}
InitFailed == \E i \in DOMAIN initLog : initLog[i] \in {"imu_failed", "ble_failed"}
Sent == sendsThisTick' = sendsThisTick + 1
TickEnds == InTick /\ pc' = "while"

\* C1: a frame is written to the TX characteristic only inside a tick whose
\* start-of-tick connection check saw the recorded central connected: never
\* while the loop is Idle, and never after a check reported the central gone
\* until BLE.central() returned a central again and a new check succeeded.
C1_SendOnlyInConnectedTick ==
    [][Sent => (InTick /\ tickConnected /\ central # NoPeer /\ ~Idle)]_vars

\* A session in which frames were sent has ended with a "gone" report.
C1_Witness ==
    pc = "loop" /\ frames > 0 /\ ~tickConnected /\ central = NoPeer

\* C2: from Idle, a connected central moves the loop to Streaming; every tick
\* whose sample was acquired ends with exactly one frame written, and at the
\* end of every tick the frames written in the session equal the ticks of the
\* session.
C2_OneFramePerTick ==
    [][/\ (pc = "loop" /\ pc' # "loop") => (peer # NoPeer /\ pc' = "while"
                                            /\ central' = peer)
       /\ (TickEnds /\ readOk) => sendsThisTick' = 1
       /\ TickEnds => frames' = ticks']_vars

\* Two ticks with an acquired sample, two frames.
C2_Witness ==
    pc = "while" /\ readOk /\ ticks = MaxTicks /\ frames = MaxTicks
    /\ sendsThisTick = 1

\* C3 (as claimed): after a failed sensor read the tick neither updates the
\* filter nor writes a frame.
C3_FailedReadSkipsTick ==
    (pc \in {"compute", "send", "delay"} /\ ~readOk)
        => (updatesThisTick = 0 /\ sendsThisTick = 0)

\* C4: once sensor or BLE initialization has failed the sketch stays in its
\* halt loop: it never advertises, no central connects, the loop never
\* streams, the filter is never updated and nothing is written to txChar.
C4_InitFailureHalts ==
    InitFailed =>
        /\ Halted
        /\ ~advertising /\ ~advOn
        /\ peer = NoPeer /\ central = NoPeer
        /\ ~Streaming
        /\ filterArgs = <<>> /\ updates = 0 /\ q = Identity
        /\ txValue = <<>> /\ frames = 0

\* BLE.begin() failed after the sensor and the filter were started.
C4_Witness ==
    pc = "halt_ble" /\ InitFailed /\ variant = "fused" /\ filterBegins = 1

\* C5 (as claimed): the rate given to filter.begin times the per-tick wait
\* in milliseconds is 1000.
C5_RateMatchesDelay ==
    filterBegins > 0 => sampleFreq * LOOP_DELAY_MS = 1000

\* C6 (as claimed): two consecutive ticks of a session, and two consecutive
\* frame writes, are never closer than the cadence interval: never zero time
\* apart, and in the fused sketch at least LOOP_DELAY_MS apart.
C6_NeverFasterThanCadence ==
    /\ tickGap # NoGap =>
         (tickGap > 0 /\ (variant = "fused" => tickGap >= LOOP_DELAY_MS))
    /\ sendGap # NoGap =>
         (sendGap > 0 /\ (variant = "fused" => sendGap >= LOOP_DELAY_MS))

\* C7: the filter is started exactly once, in setup(); afterwards its rate
\* never changes and its orientation changes only in the update step of a
\* tick; entering and leaving Streaming leave the filter as it was.
C7_FilterNeverReset ==
    [][/\ filterBegins' # filterBegins =>
            (pc = "filter_begin" /\ filterBegins = 0 /\ filterBegins' = 1)
       /\ sampleFreq' # sampleFreq => pc = "filter_begin"
       /\ q' # q => (pc = "compute" /\ tickConnected)
       /\ (Streaming # Streaming') => UNCHANGED <<q, sampleFreq, filterBegins>>
       /\ (variant = "fused" /\ pc' = "loop") => filterBegins' = 1]_vars

\* A new session has opened on the orientation the previous session left.
C7_Witness ==
    pc = "while" /\ ticks = 0 /\ q # Identity /\ filterBegins = 1

\* C8: for every in-range estimate the frame written by SendOrientation is
\* the whole text {"roll":R,"pitch":P,"yaw":Y}: snprintf did not cut it, it
\* is shorter than the 128-byte buffer, and the buffer fits the 512-byte TX
\* characteristic.
C8_FrameFits ==
    pc = "delay" =>
        /\ txValue = txFull
        /\ Len(txFull) < BUFFER_SIZE
        /\ Len(txValue) <= TX_CHAR_SIZE
        /\ BUFFER_SIZE <= TX_CHAR_SIZE

\* The longest frame: {"roll":-180.00,"pitch":-90.00,"yaw":360.00}.
C8_Witness ==
    pc = "delay" /\ est = <<-180000, -90000, 360000>> /\ Len(txValue) = 44

\* C9: a write to txChar is attempted once per tick whatever it reports; the
\* write leaves the connection state alone, the fused sketch goes on to its
\* delay, and the loop leaves Streaming only at a start-of-tick check that
\* finds the central gone.
C9_SendFailureNotFatal ==
    [][/\ Sent =>
            /\ sendsThisTick' = 1
            /\ UNCHANGED <<central, tickConnected, peer>>
            /\ variant = "fused" => pc' = "delay"
            /\ variant = "raw" => pc' = "while"
       /\ (Streaming /\ ~Streaming') => (pc = "while" /\ ~tickConnected')]_vars

\* A write failed with a central on record, and the tick went on to its delay.
C9_Witness ==
    pc = "delay" /\ ~lastSendOk /\ sendsThisTick = 1 /\ attPeer # NoPeer

C11_NoFrameToWrongPeer ==
    [][/\ Sent => (txTo' \in {central, NoPeer} /\ central' = central)
       /\ (central' # central /\ central' # NoPeer)
            => (pc = "loop" /\ central = NoPeer /\ central' = peer)]_vars

\* B has connected while the session opened for A, which sent frames, is
\* still open.
C11_Witness ==
    Streaming /\ central = "A" /\ peer = "B" /\ frames > 0

\* C12: once setup() has succeeded the loop always has a next step; while it
\* streams for a central that is gone it eventually is Idle (unless that
\* central is back first); and a central that is connected and stays so
\* eventually has a frame written for it in its own session.  Sessions,
\* failed reads and failed writes before do not change this.
C12_LoopNeverStops ==
    /\ []((Idle \/ Streaming) => ENABLED ProgStep)
    /\ (Streaming /\ ~Connected(central)) ~> (Idle \/ Connected(central))
    /\ (peer # NoPeer)
         ~> (peer = NoPeer \/ (central = peer /\ sendsThisTick = 1))

\* Idle again after a session that delivered frames to A, and B is connected.
C12_Witness ==
    pc = "loop" /\ central = NoPeer /\ frames > 0 /\ txTo = "A" /\ peer = "B"

Updated == updatesThisTick' = updatesThisTick + 1

\* out is rad * 180 / pi in the same thousandths, cut to a whole thousandth:
\* 57.295 < 180 / pi < 57.296.
IsDegPerSec(out, rad) ==
    /\ (rad < 0) = (out < 0)
    /\ 1000 * Abs(out) <= 57296 * Abs(rad)
    /\ 57295 * Abs(rad) < 1000 * (Abs(out) + 1)

\* C13: in every filter update the three rates handed to updateIMU are the
\* sample's rad/s readings times 180 / pi, the three accelerations are the
\* sample's as read, and a non-zero rate is never handed over as it was read.
C13_GyroInDegrees ==
    [][Updated =>
         /\ Len(filterArgs') = 6
         /\ \A i \in 1..3 :
              /\ IsDegPerSec(filterArgs'[i], gyro[i])
              /\ gyro[i] # 0 => filterArgs'[i] # gyro[i]
              /\ filterArgs'[i + 3] = accel[i]]_vars

\* An update with the reading gyro = (1, -34.907, 0.002) rad/s.
C13_Witness ==
    /\ pc = "send" /\ updatesThisTick = 1
    /\ gyro = <<1000, -34907, 2>>
    /\ filterArgs = <<57295, -2000023, 114, -313813, 1234, 0>>

(***************************************************************************)
(* Reading a frame back, as a JSON reader on the central does: find the    *)
(* key, take the number up to the next "," or "}", read it in thousandths. *)
(***************************************************************************)
IsDigit(c) == \E n \in 0..9 : Digit(n) = c
DigitVal(c) == CHOOSE n \in 0..9 : Digit(n) = c

RECURSIVE DigitsVal(_)
DigitsVal(t) == IF t = <<>> THEN 0
                ELSE 10 * DigitsVal(SubSeq(t, 1, Len(t) - 1))
                     + DigitVal(t[Len(t)])

Quoted(key) == <<"\"">> \o key \o <<"\"", ":">>

\* Index of the first character after "key": in text, 0 if the key is absent.
ValueStart(text, key) ==
    LET k == Quoted(key)
        at == {i \in 1..Len(text) :
                 /\ i + Len(k) - 1 <= Len(text)
                 /\ SubSeq(text, i, i + Len(k) - 1) = k}
    IN  IF at = {} THEN 0
        ELSE (CHOOSE i \in at : \A j \in at : i <= j) + Len(k)

\* The characters from start up to the next "," or "}".
ValueText(text, start) ==
    LET ends == {i \in start..Len(text) : text[i] \in {",", "}"}}
        stop == IF ends = {} THEN Len(text) + 1
                ELSE CHOOSE i \in ends : \A j \in ends : i <= j
    IN  SubSeq(text, start, stop - 1)

\* [-]digits[.digits] is a number.
IsNumber(t) ==
    LET body == IF t # <<>> /\ t[1] = "-" THEN Tail(t) ELSE t
        dots == {i \in 1..Len(body) : body[i] = "."}
    IN  /\ body # <<>>
        /\ IsDigit(body[1]) /\ IsDigit(body[Len(body)])
        /\ Cardinality(dots) <= 1
        /\ \A i \in 1..Len(body) : IsDigit(body[i]) \/ i \in dots

\* The value of a number in thousandths; digits past the third are dropped.
ParseFixed(t) ==
    LET neg == t[1] = "-"
        body == IF neg THEN Tail(t) ELSE t
        dots == {i \in 1..Len(body) : body[i] = "."}
        dot == IF dots = {} THEN Len(body) + 1 ELSE CHOOSE i \in dots : TRUE
        whole == SubSeq(body, 1, dot - 1)
        frac == SubSeq(body \o <<"0", "0", "0">>, dot + 1, dot + 3)
        m == 1000 * DigitsVal(whole) + DigitsVal(frac)
    IN  IF neg THEN -m ELSE m

HasField(text, key) ==
    ValueStart(text, key) # 0 /\ IsNumber(ValueText(text, ValueStart(text, key)))
DecodeField(text, key) == ParseFixed(ValueText(text, ValueStart(text, key)))

KeyRoll == <<"r", "o", "l", "l">>
KeyPitch == <<"p", "i", "t", "c", "h">>
KeyYaw == <<"y", "a", "w">>
Decoded(text) ==
    <<DecodeField(text, KeyRoll), DecodeField(text, KeyPitch),
      DecodeField(text, KeyYaw)>>

\* C14: for every in-range estimate the frame written by SendOrientation
\* carries the three keys roll, pitch and yaw, each with a number, and
\* reading the three numbers back gives the estimate within 0.01 degrees.
C14_FrameRoundTrip ==
    pc = "delay" =>
        /\ \A key \in {KeyRoll, KeyPitch, KeyYaw} : HasField(txValue, key)
        /\ \A i \in 1..3 : Abs(Decoded(txValue)[i] - est[i]) <= 10

\* Three estimates that are not whole hundredths, each read back rounded.
C14_Witness ==
    /\ pc = "delay"
    /\ est = <<1234, -9995, 359996>>
    /\ Decoded(txValue) = <<1230, -10000, 360000>>

\* The order of the steps of a tick of the fused sketch.
TickOrder ==
    {<<"while", "read">>, <<"read", "compute">>, <<"compute", "send">>,
     <<"send", "delay">>, <<"delay", "while">>}

\* C16: in the fused sketch a tick runs read, update, send, wait in this
\* order and nothing else; the frame written in a tick is the text of the
\* three angles of the filter as this tick's single update left it, an
\* update made with this tick's reading, and the write changes neither.
C16_FrameIsThisTicksEstimate ==
    [][variant = "fused" =>
         /\ (Streaming /\ Streaming' /\ pc' # pc) => <<pc, pc'>> \in TickOrder
         /\ Updated => (pc = "compute" /\ updatesThisTick = 0
                        /\ sendsThisTick = 0)
         /\ Sent =>
              /\ pc = "send" /\ updatesThisTick = 1 /\ sendsThisTick = 0
              /\ filterArgs = UpdateArgs(accel, gyro)
              /\ txFull' = OrientationText(q[1], q[2], q[3])
              /\ txValue' = txFull'
              /\ UNCHANGED <<q, est>>]_vars

\* The second tick of a session has written the filter's current angles,
\* which are not those the session started from.
C16_Witness ==
    /\ variant = "fused" /\ pc = "delay" /\ ticks = MaxTicks /\ frames = MaxTicks
    /\ q = <<-4, 1234, 0>>
    /\ Decoded(txValue) = <<0, 1230, 0>>

\* C17 (as claimed): in the fused sketch, whose processing takes less than
\* the cadence interval, a tick starts exactly LOOP_DELAY_MS after the tick
\* before it started, however long the processing took.
C17_FixedTickPeriod ==
    (variant = "fused" /\ tickGap # NoGap) => tickGap = LOOP_DELAY_MS

\* The initialization steps of the fused sketch up to advertising.
StartupOrder ==
    <<"imu", "filter", "ble", "txChar", "rxChar", "service", "advertise">>

\* C18: the filter has been started, once, before any filter update; and in
\* the fused sketch the device advertises, has a central connected or
\* streams only when sensor, filter, transport, TX characteristic, RX
\* characteristic, service registration and advertising were done in this
\* order, each once.  Before that no central is connected.
C18_StartupOrder ==
    /\ updates > 0 => (filterBegins = 1 /\ sampleFreq = SAMPLE_RATE_HZ)
    /\ (variant = "fused"
        /\ (advertising \/ advOn \/ peer # NoPeer \/ attPeer # NoPeer
            \/ Idle \/ Streaming))
         => initLog = StartupOrder
    /\ (variant = "fused" /\ initLog # StartupOrder)
         => (peer = NoPeer /\ updates = 0 /\ frames = 0
             /\ \E n \in 0..Len(initLog) :
                  /\ SubSeq(initLog, 1, n) = SubSeq(StartupOrder, 1, n)
                  /\ n < Len(initLog) =>
                       (Halted /\ Len(initLog) = n + 1
                        /\ initLog[n + 1] \in {"imu_failed", "ble_failed"}))

\* The first filter update of an execution, after the complete startup.
C18_Witness ==
    /\ variant = "fused" /\ pc = "send" /\ updates = 1 /\ ticks = 1
    /\ filterBegins = 1 /\ initLog = StartupOrder /\ peer # NoPeer

\* Every variable but rxValue.
coreVars ==
    <<variant, pc, initLog, stackVars, filterVars, sensorVars, txVars,
      countVars, timeVars, loopVars, peer>>

\* C20: a central can write rxChar while a session runs, and the write
\* changes nothing but the value of rxChar; whatever that value is, the
\* start-of-tick check goes by the connection alone, the filter changes only
\* in the update step, the wait is LOOP_DELAY_MS, and the frame written is
\* the text of the current estimate (fused) or reading (raw).
C20_RxWritesIgnored ==
    [][/\ rxValue' # rxValue => (peer # NoPeer /\ UNCHANGED coreVars)
       /\ (pc = "while" /\ pc' # pc) =>
            /\ (pc' = "read") = (central # NoPeer /\ peer = central)
            /\ tickConnected' = (pc' = "read")
       /\ (pc = "loop" /\ peer # NoPeer /\ central' # central) => pc' = "while"
       /\ q' # q => pc = "compute"
       /\ (pc = "delay" /\ pc' # pc) =>
            (pc' = "while" /\ elapsed' = elapsed + LOOP_DELAY_MS)
       /\ Sent => txValue' = IF variant = "fused"
                             THEN OrientationText(est[1], est[2], est[3])
                             ELSE RawText(accel, gyro, currentTime)]_vars

\* A session goes on, in its second tick, after the central wrote rxChar.
C20_Witness ==
    /\ rxValue = <<"x">> /\ pc = "delay" /\ ticks = MaxTicks
    /\ frames = MaxTicks /\ tickConnected /\ peer = central

\* C19: a step taken while the loop is Idle reads no sample, leaves the
\* filter and its last arguments as they were and writes nothing to txChar,
\* so a new session starts on the filter state the last one left; and in the
\* fused sketch every tick that updates the filter also writes a frame: at
\* the end of each tick and whenever the loop is Idle the updates of the
\* session equal its writes, and inside a tick they differ by at most the
\* update whose write is next.
C19_IdleDoesNothing ==
    [][/\ Idle => (/\ UNCHANGED <<filterVars, sensorVars, txVars, est>>
                   /\ ~Updated /\ ~Sent)
       /\ variant = "fused" =>
            /\ updates' - frames' \in {0, 1}
            /\ (pc' \in {"while", "loop"}) => updates' = frames'
            /\ (updates' # frames') => pc' = "send"]_vars

\* Idle with no central after a session of two ticks: two updates, two
\* writes, and the filter holds what the session left.
C19_Witness ==
    /\ variant = "fused" /\ pc = "loop" /\ peer = NoPeer /\ attPeer = NoPeer
    /\ updates = MaxTicks /\ frames = MaxTicks
    /\ q = <<179996, 90000, 179994>>
====
